---- MODULE Spec2Model ----
(***************************************************************************)
(* Geo-app: rooms, memberships, location rows kept in a Supabase store,    *)
(* per-client replicas of a room's location rows fed by the realtime       *)
(* channel, and the projection (filteredLocations) that MapComponent       *)
(* renders from a replica.                                                 *)
(***************************************************************************)
EXTENDS Integers, Sequences, FiniteSets, TLC

(* ------------------------------ bounds --------------------------------- *)
\* Timestamps are milliseconds since the epoch, 1..MaxTime.  The code writes
\* them with new Date().toISOString() and compares them with new Date(..),
\* both of millisecond precision, so a timestamp is modelled by that number.
MaxTime == 2
\* Longest replica considered in the projection specification.
MaxLen == 3

\* Location rows ever inserted in the store (row ids are 1..MaxRows).
MaxRows == 2

Users == {"A", "B"}
\* Room ids the store can hand out (never reused) and the codes that
\* generateRoomCode can draw.
Rooms == {"r1"}
Codes == {"ABC123"}
\* What a user can type in the join form; ToUpperCase is String.toUpperCase.
CodeInputs == {"ABC123", "abc123", "ZZZ999"}
ToUpperCase(s) == IF s = "abc123" THEN "ABC123" ELSE s
Times == 1..MaxTime
NoRoom == "none"
\* (latitude, longitude) samples
Positions == {<<40, -3>>, <<41, -4>>}

(* ------------------------------ state ---------------------------------- *)
VARIABLES
  \* the store (Supabase tables rooms, room_members, locations)
  rooms,         \* set of [id, code, created_by]
  room_members,  \* sequence of [room_id, user_id]
  locationRows,  \* set of Location rows
  usedRooms,     \* room ids handed out so far
  nextId,        \* next location row id
  now,           \* the clock behind new Date()
  \* one browser client per user
  currentRoom,   \* page.tsx: const [currentRoom, setCurrentRoom] (room id or NoRoom)
  locations,     \* page.tsx: const [locations, setLocations], per client
  visible,       \* MapComponent.tsx: filteredLocations of the last render, per client
  error,         \* RoomManager.tsx: const [error, setError]
  rm,            \* handler called or in progress between two awaits
  opening,       \* page.tsx handleJoinRoom awaiting its select of the room
  fetches,       \* listByRoom reads in flight (page.tsx 136-149 and 235-243)
  feed,          \* realtime events sent to the client's channel, not yet handled
  pendingInsert, \* updateLocation insert in flight (page.tsx 73-100)
  pendingUpsert  \* watchPosition callback of page.tsx 162-210, due or between its awaits

storeVars == <<rooms, room_members, locationRows, usedRooms, nextId, now>>
clientVars == <<currentRoom, locations, visible, error, rm, opening, fetches, feed,
                pendingInsert, pendingUpsert>>
vars == <<storeVars, clientVars>>

(* ---------------------- Location rows (types.Location) ----------------- *)
Location(id, room, user, pos, ts, custom) ==
  [id |-> id, room_id |-> room, user_id |-> user,
   latitude |-> pos[1], longitude |-> pos[2],
   timestamp |-> ts, is_custom_marker |-> custom]

Range(s) == {s[i] : i \in DOMAIN s}

RECURSIVE SelectSeqBy(_, _, _)
\* Array.prototype.filter with a predicate on user_id / id: keeps the entries
\* whose field differs from val.
SelectSeqBy(s, field, val) ==
  IF s = <<>> THEN <<>>
  ELSE LET rest == SelectSeqBy(Tail(s), field, val) IN
       IF Head(s)[field] # val THEN <<Head(s)>> \o rest ELSE rest

(* ------------------- MapComponent.filteredLocations -------------------- *)
\* acc.find(loc => loc.user_id === location.user_id): index of the first
\* entry of acc with that user_id (custom markers included), 0 when none.
FindByUser(acc, user) ==
  IF \E i \in DOMAIN acc : acc[i].user_id = user
  THEN CHOOSE i \in DOMAIN acc :
         /\ acc[i].user_id = user
         /\ \A j \in DOMAIN acc : acc[j].user_id = user => i <= j
  ELSE 0

\* Mutant of ReduceStep: the acc.filter(..) that drops the user's earlier
\* entries is missing.
ReduceStepNoFilter(acc, location) ==
  IF location.is_custom_marker THEN Append(acc, location)
  ELSE LET e == FindByUser(acc, location.user_id) IN
       IF e = 0 \/ location.timestamp > acc[e].timestamp
       THEN Append(acc, location)
       ELSE acc

\* Mutant of ReduceStep: the comparison of the timestamps is reversed.
ReduceStepOlderWins(acc, location) ==
  IF location.is_custom_marker THEN Append(acc, location)
  ELSE LET e == FindByUser(acc, location.user_id) IN
       IF e = 0 \/ location.timestamp < acc[e].timestamp
       THEN Append(IF e # 0 THEN SelectSeqBy(acc, "user_id", location.user_id)
                             ELSE acc,
                   location)
       ELSE acc

\* One call of the reducer (MapComponent.tsx 134-146).
ReduceStep(acc, location) ==
  IF location.is_custom_marker THEN Append(acc, location)
  ELSE LET e == FindByUser(acc, location.user_id) IN
       IF e = 0 \/ location.timestamp > acc[e].timestamp
       THEN Append(IF e # 0 THEN SelectSeqBy(acc, "user_id", location.user_id)
                             ELSE acc,
                   location)
       ELSE acc

RECURSIVE Reduce(_, _)
Reduce(list, acc) ==
  IF list = <<>> THEN acc ELSE Reduce(Tail(list), ReduceStep(acc, Head(list)))

filteredLocations(list) == Reduce(list, <<>>)

(* --------------- realtime handler of page.tsx (116-131) ---------------- *)
\* INSERT: [...prev, payload.new]
OnInsert(prev, new) == Append(prev, new)
\* UPDATE: prev.map(loc => loc.id === payload.new.id ? payload.new : loc)
OnUpdate(prev, new) == [i \in DOMAIN prev |-> IF prev[i].id = new.id THEN new ELSE prev[i]]
\* Mutant of OnDelete: the DELETE event is ignored.
OnDeleteIgnored(prev, oldId) == prev
\* DELETE: prev.filter(loc => loc.id !== payload.old.id)
OnDelete(prev, oldId) == SelectSeqBy(prev, "id", oldId)

\* setLocations followed by the re-render of MapComponent.
SetLocations(c, list) ==
  /\ locations' = [locations EXCEPT ![c] = list]
  /\ visible' = [visible EXCEPT ![c] = filteredLocations(list)]

\* no RoomManager handler running / no sample being handled
Idle == [op |-> "idle"]
NoSample == [stage |-> "none"]

(* ------------------------- the store (Supabase) ------------------------ *)
RoomIds == {r.id : r \in rooms}
RoomsByCode(code) == {r \in rooms : r.code = code}
RowsOfRoom(room) == {l \in locationRows : l.room_id = room}
RowsOfUserInRoom(room, user) == {l \in RowsOfRoom(room) : l.user_id = user}

RECURSIVE SortedById(_)
\* the rows of a set as a sequence, by ascending id
SortedById(S) ==
  IF S = {} THEN <<>>
  ELSE LET m == CHOOSE x \in S : \A y \in S : x.id <= y.id
       IN <<m>> \o SortedById(S \ {m})

RECURSIVE DescOrders(_)
\* .order('timestamp', { ascending: false }): every listing of the rows with
\* non-increasing timestamps (rows of equal timestamp come in any order).
DescOrders(S) ==
  IF S = {} THEN {<<>>}
  ELSE UNION {{<<r>> \o t : t \in DescOrders(S \ {r})} :
              r \in {x \in S : \A y \in S : y.timestamp <= x.timestamp}}

\* Mutant of InsertMember: room_members accepts a second row of the same
\* (room_id, user_id).
InsertMemberNoUnique(table, row) == [ok |-> TRUE, table |-> Append(table, row)]

\* insert into room_members: the table has one row per (room_id, user_id);
\* a second insert of the pair is refused with a uniqueness violation.
InsertMember(table, row) ==
  IF row \in Range(table) THEN [ok |-> FALSE, table |-> table]
  ELSE [ok |-> TRUE, table |-> Append(table, row)]

\* insert into rooms: code is unique across rooms.
InsertRoom(table, row) ==
  IF RoomsByCode(row.code) # {} THEN [ok |-> FALSE, table |-> table]
  ELSE [ok |-> TRUE, table |-> table \cup {row}]

\* postgres_changes: the events of one write reach the channel of every
\* client whose subscription filters on that room, in commit order.
Event(type, row) == [eventType |-> type, row |-> row]
Broadcast(room, evs) ==
  feed' = [d \in Users |-> IF currentRoom[d] = room THEN feed[d] \o evs ELSE feed[d]]

\* insert into locations of one row stamped new Date() by the writer
InsertLocation(room, user, pos, custom) ==
  LET row == Location(nextId, room, user, pos, now, custom) IN
  /\ locationRows' = locationRows \cup {row}
  /\ nextId' = nextId + 1
  /\ now' = now + 1
  /\ Broadcast(room, <<Event("INSERT", row)>>)

\* delete from locations of a set of rows
DeleteLocations(room, rows) ==
  /\ locationRows' = locationRows \ rows
  /\ Broadcast(room, [i \in 1..Cardinality(rows) |-> Event("DELETE", SortedById(rows)[i])])

(* ------------------------ page.tsx: DashboardPage ---------------------- *)
\* setCurrentRoom(room) and the effects that depend on currentRoom: the old
\* channel is unsubscribed, a channel filtered on the room is subscribed and
\* fetchLocations is called (102-156).  handleJoinRoom issues the same select
\* in the same turn (235-239); the two reads are kept as one read in flight.
EnterRoom(c, room) ==
  /\ currentRoom' = [currentRoom EXCEPT ![c] = room]
  /\ feed' = [feed EXCEPT ![c] = <<>>]
  /\ fetches' = [fetches EXCEPT ![c] = @ \cup
                   {[room |-> room, stage |-> "sent", data |-> <<>>]}]

\* handleLeaveRoom (253-257) and the cleanup of the subscription effect.
ExitRoom(c) ==
  /\ currentRoom' = [currentRoom EXCEPT ![c] = NoRoom]
  /\ feed' = [feed EXCEPT ![c] = <<>>]
  /\ SetLocations(c, <<>>)

\* handleJoinRoom (223-247), first await: select the room by id, .single().
OpenSelect(c) ==
  /\ opening[c] # NoRoom
  /\ opening' = [opening EXCEPT ![c] = NoRoom]
  /\ IF opening[c] \in RoomIds
     THEN EnterRoom(c, opening[c])
     ELSE UNCHANGED <<currentRoom, feed, fetches>>
  /\ UNCHANGED <<storeVars, locations, visible, error, rm, pendingInsert, pendingUpsert>>

\* a select of the room's locations ordered by timestamp is answered
FetchRead(c) ==
  \E f \in fetches[c] : \E data \in DescOrders(RowsOfRoom(f.room)) :
    /\ f.stage = "sent"
    /\ fetches' = [fetches EXCEPT ![c] =
                     (@ \ {f}) \cup {[f EXCEPT !.stage = "got", !.data = data]}]
    /\ UNCHANGED <<storeVars, currentRoom, locations, visible, error, rm, opening,
                   feed, pendingInsert, pendingUpsert>>

\* setLocations(data) of fetchLocations (145) and of handleJoinRoom (241-243)
FetchApply(c) ==
  \E f \in fetches[c] :
    /\ f.stage = "got"
    /\ fetches' = [fetches EXCEPT ![c] = @ \ {f}]
    /\ SetLocations(c, f.data)
    /\ UNCHANGED <<storeVars, currentRoom, error, rm, opening, feed,
                   pendingInsert, pendingUpsert>>

\* the postgres_changes callback (116-131) handles the next event
Deliver(c) ==
  /\ feed[c] # <<>>
  /\ LET ev == Head(feed[c]) IN
       SetLocations(c,
         IF ev.eventType = "INSERT" THEN OnInsert(locations[c], ev.row)
         ELSE IF ev.eventType = "UPDATE" THEN OnUpdate(locations[c], ev.row)
         ELSE OnDelete(locations[c], ev.row.id))
  /\ feed' = [feed EXCEPT ![c] = Tail(@)]
  /\ UNCHANGED <<storeVars, currentRoom, error, rm, opening, fetches,
                 pendingInsert, pendingUpsert>>

\* One device sample reaches both watchPosition callbacks of the page: the
\* one of 44-56 calls updateLocation, the one of 162-207 starts its upsert.
\* Each callback keeps the room of the render that registered it.
Sample(c, pos) ==
  /\ currentRoom[c] # NoRoom
  /\ pendingInsert[c] = NoSample /\ pendingUpsert[c] = NoSample
  /\ pendingInsert' = [pendingInsert EXCEPT ![c] =
                         [stage |-> "insert", room |-> currentRoom[c], pos |-> pos]]
  /\ pendingUpsert' = [pendingUpsert EXCEPT ![c] =
                         [stage |-> "select", room |-> currentRoom[c], pos |-> pos]]
  /\ UNCHANGED <<storeVars, currentRoom, locations, visible, error, rm, opening,
                 fetches, feed>>

\* updateLocation (73-100): always an insert of a new live-position row
UpdateLocationInsert(c) ==
  /\ pendingInsert[c] # NoSample
  /\ InsertLocation(pendingInsert[c].room, c, pendingInsert[c].pos, FALSE)
  /\ pendingInsert' = [pendingInsert EXCEPT ![c] = NoSample]
  /\ UNCHANGED <<rooms, room_members, usedRooms, currentRoom, locations, visible,
                 error, rm, opening, fetches, pendingUpsert>>

\* Mutant of UpsertSelect: the select lacks .eq('user_id', userId).
UpsertSelectAnyUser(c) ==
  /\ pendingUpsert[c].stage = "select"
  /\ LET found == {l \in RowsOfRoom(pendingUpsert[c].room) : ~l.is_custom_marker}
         existing == IF Cardinality(found) = 1
                     THEN (CHOOSE l \in found : TRUE).id ELSE 0
     IN pendingUpsert' = [pendingUpsert EXCEPT ![c] =
          [stage |-> "write", room |-> @.room, pos |-> @.pos, existing |-> existing]]
  /\ UNCHANGED <<storeVars, currentRoom, locations, visible, error, rm, opening,
                 fetches, feed, pendingInsert>>

\* 170-176: select id where room, user, is_custom_marker = false, .single():
\* data is the row when exactly one matches, null otherwise (the error of
\* .single() is not read).
UpsertSelect(c) ==
  /\ pendingUpsert[c].stage = "select"
  /\ LET found == {l \in RowsOfUserInRoom(pendingUpsert[c].room, c) :
                     ~l.is_custom_marker}
         existing == IF Cardinality(found) = 1
                     THEN (CHOOSE l \in found : TRUE).id ELSE 0
     IN pendingUpsert' = [pendingUpsert EXCEPT ![c] =
          [stage |-> "write", room |-> @.room, pos |-> @.pos, existing |-> existing]]
  /\ UNCHANGED <<storeVars, currentRoom, locations, visible, error, rm, opening,
                 fetches, feed, pendingInsert>>

\* 178-203: update of the row found, or insert of a new row
UpsertWrite(c) ==
  /\ pendingUpsert[c].stage = "write"
  /\ LET p == pendingUpsert[c]
         hit == {l \in locationRows : l.id = p.existing}
     IN IF p.existing # 0
        THEN IF hit # {}
             THEN LET old == CHOOSE l \in hit : TRUE
                      new == [old EXCEPT !.latitude = p.pos[1],
                                         !.longitude = p.pos[2],
                                         !.timestamp = now]
                  IN /\ locationRows' = (locationRows \ {old}) \cup {new}
                     /\ now' = now + 1
                     /\ Broadcast(old.room_id, <<Event("UPDATE", new)>>)
                     /\ UNCHANGED nextId
             ELSE UNCHANGED <<locationRows, now, nextId, feed>>
        ELSE InsertLocation(p.room, c, p.pos, FALSE)
  /\ pendingUpsert' = [pendingUpsert EXCEPT ![c] = NoSample]
  /\ UNCHANGED <<rooms, room_members, usedRooms, currentRoom, locations, visible,
                 error, rm, opening, fetches, pendingInsert>>

\* updateLocation (79-99): the store does not answer the insert; the error
\* is thrown and the catch logs it.
UpdateLocationFail(c) ==
  /\ pendingInsert[c] # NoSample
  /\ pendingInsert' = [pendingInsert EXCEPT ![c] = NoSample]
  /\ UNCHANGED <<storeVars, currentRoom, locations, visible, error, rm, opening,
                 fetches, feed, pendingUpsert>>

\* 170-176: the store does not answer the select; data is null and the
\* error of the select is not read, so the callback goes on to its insert.
UpsertSelectFail(c) ==
  /\ pendingUpsert[c].stage = "select"
  /\ pendingUpsert' = [pendingUpsert EXCEPT ![c] =
       [stage |-> "write", room |-> @.room, pos |-> @.pos, existing |-> 0]]
  /\ UNCHANGED <<storeVars, currentRoom, locations, visible, error, rm, opening,
                 fetches, feed, pendingInsert>>

\* Mutant of UpsertWriteFail: the catch also leaves the room.
UpsertWriteFailExits(c) ==
  /\ pendingUpsert[c].stage = "write"
  /\ pendingUpsert' = [pendingUpsert EXCEPT ![c] = NoSample]
  /\ ExitRoom(c)
  /\ UNCHANGED <<storeVars, error, rm, opening, fetches, pendingInsert>>

\* 178-206: the store does not answer the update or the insert; the error is
\* thrown and the catch logs it.
UpsertWriteFail(c) ==
  /\ pendingUpsert[c].stage = "write"
  /\ pendingUpsert' = [pendingUpsert EXCEPT ![c] = NoSample]
  /\ UNCHANGED <<storeVars, currentRoom, locations, visible, error, rm, opening,
                 fetches, feed, pendingInsert>>

\* The device reports an error instead of a position: the error callbacks of
\* the watchers (57-59, 208-210) are due.
GeoError(c) ==
  /\ currentRoom[c] # NoRoom
  /\ pendingInsert[c] = NoSample /\ pendingUpsert[c] = NoSample
  /\ pendingUpsert' = [pendingUpsert EXCEPT ![c] = [stage |-> "error"]]
  /\ UNCHANGED <<storeVars, currentRoom, locations, visible, error, rm, opening,
                 fetches, feed, pendingInsert>>

\* the error callbacks run: console.error, nothing else
GeoErrorLogged(c) ==
  /\ pendingUpsert[c].stage = "error"
  /\ pendingUpsert' = [pendingUpsert EXCEPT ![c] = NoSample]
  /\ UNCHANGED <<storeVars, currentRoom, locations, visible, error, rm, opening,
                 fetches, feed, pendingInsert>>

(* ------------------- RoomManager.tsx: the room registry ---------------- *)
\* The handlers run with the page's currentRoom and userId as their props
\* (page.tsx 291-296) and are the registry's createRoom, joinRoom, deleteRoom
\* and leaveRoom; each is callable with any argument its own guards accept.

\* Mutant of CreateRoom: the creator is also inserted into room_members.
CreateRoomAutoJoin(c, code) ==
  /\ rm[c] = Idle /\ opening[c] = NoRoom
  /\ \E id \in Rooms \ usedRooms :
       LET res == InsertRoom(rooms, [id |-> id, code |-> code, created_by |-> c]) IN
       /\ rooms' = res.table
       /\ IF res.ok
          THEN /\ usedRooms' = usedRooms \cup {id}
               /\ error' = [error EXCEPT ![c] = "none"]
               /\ opening' = [opening EXCEPT ![c] = id]
               /\ room_members' = Append(room_members, [room_id |-> id, user_id |-> c])
          ELSE /\ error' = [error EXCEPT ![c] = "duplicate_code"]
               /\ UNCHANGED <<usedRooms, opening, room_members>>
  /\ UNCHANGED <<locationRows, nextId, now, currentRoom, locations,
                 visible, rm, fetches, feed, pendingInsert, pendingUpsert>>

\* handleCreateRoom (89-123): one insert with a drawn code, then
\* onJoinRoom(room.id).
CreateRoom(c, code) ==
  /\ rm[c] = Idle /\ opening[c] = NoRoom
  /\ \E id \in Rooms \ usedRooms :
       LET res == InsertRoom(rooms, [id |-> id, code |-> code, created_by |-> c]) IN
       /\ rooms' = res.table
       /\ IF res.ok
          THEN /\ usedRooms' = usedRooms \cup {id}
               /\ error' = [error EXCEPT ![c] = "none"]
               /\ opening' = [opening EXCEPT ![c] = id]
          ELSE /\ error' = [error EXCEPT ![c] = "duplicate_code"]
               /\ UNCHANGED <<usedRooms, opening>>
  /\ UNCHANGED <<room_members, locationRows, nextId, now, currentRoom, locations,
                 visible, rm, fetches, feed, pendingInsert, pendingUpsert>>

\* Mutant of JoinRoomSelect: the error of the select is not shown.
JoinRoomSelectSilent(c, input) ==
  /\ rm[c] = Idle /\ opening[c] = NoRoom
  /\ LET found == RoomsByCode(ToUpperCase(input)) IN
       IF Cardinality(found) = 1
       THEN /\ rm' = [rm EXCEPT ![c] = [op |-> "join", room |-> (CHOOSE r \in found : TRUE).id]]
            /\ error' = [error EXCEPT ![c] = "none"]
       ELSE /\ error' = [error EXCEPT ![c] = "none"]
            /\ UNCHANGED rm
  /\ UNCHANGED <<storeVars, currentRoom, locations, visible, opening, fetches, feed,
                 pendingInsert, pendingUpsert>>

\* handleJoinRoom (125-145): select the room by the uppercased code, .single()
JoinRoomSelect(c, input) ==
  /\ rm[c] = Idle /\ opening[c] = NoRoom
  /\ LET found == RoomsByCode(ToUpperCase(input)) IN
       IF Cardinality(found) = 1
       THEN /\ rm' = [rm EXCEPT ![c] = [op |-> "join", room |-> (CHOOSE r \in found : TRUE).id]]
            /\ error' = [error EXCEPT ![c] = "none"]
       ELSE /\ error' = [error EXCEPT ![c] = "not_found"]
            /\ UNCHANGED rm
  /\ UNCHANGED <<storeVars, currentRoom, locations, visible, opening, fetches, feed,
                 pendingInsert, pendingUpsert>>

\* handleJoinRoom (147-168): plain insert into room_members; on its error the
\* handler stops with setError, otherwise onJoinRoom(room.id).
JoinRoomInsert(c) ==
  /\ rm[c].op = "join"
  /\ LET res == InsertMember(room_members, [room_id |-> rm[c].room, user_id |-> c]) IN
       /\ room_members' = res.table
       /\ IF res.ok
          THEN opening' = [opening EXCEPT ![c] = rm[c].room] /\ UNCHANGED error
          ELSE error' = [error EXCEPT ![c] = "duplicate_member"] /\ UNCHANGED opening
  /\ rm' = [rm EXCEPT ![c] = Idle]
  /\ UNCHANGED <<rooms, locationRows, usedRooms, nextId, now, currentRoom, locations,
                 visible, fetches, feed, pendingInsert, pendingUpsert>>

\* handleDeleteRoom (171-185): delete the locations of the target room.  The
\* handler reads created_by nowhere.  The record of the call in progress
\* keeps, next to the target, the rows the room had when the call began.
DeleteRoomLocations(c, target) ==
  /\ rm[c] = Idle
  /\ target \in RoomIds
  /\ DeleteLocations(target, RowsOfRoom(target))
  /\ rm' = [rm EXCEPT ![c] = [op |-> "delete", room |-> target,
                                before |-> RowsOfRoom(target)]]
  /\ error' = [error EXCEPT ![c] = "none"]
  /\ UNCHANGED <<rooms, room_members, usedRooms, nextId, now, currentRoom, locations,
                 visible, opening, fetches, pendingInsert, pendingUpsert>>

\* handleDeleteRoom (187-202): delete the room, then onLeaveRoom() when it is
\* the current room.
DeleteRoomRoom(c) ==
  /\ rm[c].op = "delete"
  /\ rooms' = {r \in rooms : r.id # rm[c].room}
  /\ IF currentRoom[c] = rm[c].room
     THEN ExitRoom(c)
     ELSE UNCHANGED <<currentRoom, feed, locations, visible>>
  /\ rm' = [rm EXCEPT ![c] = Idle]
  /\ UNCHANGED <<room_members, locationRows, usedRooms, nextId, now, error, opening,
                 fetches, pendingInsert, pendingUpsert>>

\* handleDeleteRoom (178-185, 203-205): the store does not answer the delete
\* of the locations; locationsError is thrown and shown with setError.
DeleteRoomLocationsFail(c, target) ==
  /\ rm[c] = Idle
  /\ target \in RoomIds
  /\ error' = [error EXCEPT ![c] = "store_error"]
  /\ UNCHANGED <<storeVars, currentRoom, locations, visible, rm, opening, fetches,
                 feed, pendingInsert, pendingUpsert>>

\* handleDeleteRoom (187-193, 203-205): the store does not answer the delete
\* of the room; roomError is thrown and shown with setError.
DeleteRoomRoomFail(c) ==
  /\ rm[c].op = "delete"
  /\ error' = [error EXCEPT ![c] = "store_error"]
  /\ rm' = [rm EXCEPT ![c] = Idle]
  /\ UNCHANGED <<storeVars, currentRoom, locations, visible, opening, fetches,
                 feed, pendingInsert, pendingUpsert>>

\* Mutant of LeaveRoom: the delete lacks .eq('room_id', currentRoom.id).
LeaveRoomEveryRoom(c) ==
  /\ rm[c] = Idle
  /\ currentRoom[c] # NoRoom
  /\ locationRows' = {l \in locationRows : l.user_id # c}
  /\ LET rows == SortedById(RowsOfUserInRoom(currentRoom[c], c)) IN
       feed' = [d \in Users |->
                  IF d = c THEN <<>>
                  ELSE IF currentRoom[d] = currentRoom[c]
                       THEN feed[d] \o [i \in DOMAIN rows |-> Event("DELETE", rows[i])]
                       ELSE feed[d]]
  /\ currentRoom' = [currentRoom EXCEPT ![c] = NoRoom]
  /\ SetLocations(c, <<>>)
  /\ error' = [error EXCEPT ![c] = "none"]
  /\ UNCHANGED <<rooms, room_members, usedRooms, nextId, now, rm, opening, fetches,
                 pendingInsert, pendingUpsert>>

\* handleLeaveRoom (210-234): delete the user's locations of the current
\* room, then onLeaveRoom().
LeaveRoom(c) ==
  /\ rm[c] = Idle
  /\ currentRoom[c] # NoRoom
  /\ locationRows' = locationRows \ RowsOfUserInRoom(currentRoom[c], c)
  /\ LET rows == SortedById(RowsOfUserInRoom(currentRoom[c], c)) IN
       feed' = [d \in Users |->
                  IF d = c THEN <<>>
                  ELSE IF currentRoom[d] = currentRoom[c]
                       THEN feed[d] \o [i \in DOMAIN rows |-> Event("DELETE", rows[i])]
                       ELSE feed[d]]
  /\ currentRoom' = [currentRoom EXCEPT ![c] = NoRoom]
  /\ SetLocations(c, <<>>)
  /\ error' = [error EXCEPT ![c] = "none"]
  /\ UNCHANGED <<rooms, room_members, usedRooms, nextId, now, rm, opening, fetches,
                 pendingInsert, pendingUpsert>>

(* ------------- handlers invoked with nothing to work on ---------------- *)
\* The text a handler reads when it is invoked: the room name, the room code
\* or the marker name typed so far, and for handleDeleteRoom the userId prop,
\* which is '' until checkAuth has set the page's userId (page.tsx 16, 294).
Blank == {"", " "}
Trim(s) == IF s = " " THEN "" ELSE s
Handlers == {"createRoom", "joinRoom", "deleteRoom", "addMarker"}
Fields(op) == IF op = "deleteRoom" THEN {""} ELSE Blank

\* onClick of the form's button: the handler is called with the text
Submit(c, op, text) ==
  /\ rm[c] = Idle /\ opening[c] = NoRoom
  /\ op = "addMarker" => currentRoom[c] # NoRoom
  /\ rm' = [rm EXCEPT ![c] = [op |-> op, text |-> text]]
  /\ UNCHANGED <<storeVars, currentRoom, locations, visible, error, opening, fetches,
                 feed, pendingInsert, pendingUpsert>>

\* handleCreateRoom (89-93): if (!roomName.trim()) { setError(...); return }
CreateRoomBlank(c) ==
  /\ rm[c].op = "createRoom" /\ Trim(rm[c].text) = ""
  /\ error' = [error EXCEPT ![c] = "validation"]
  /\ rm' = [rm EXCEPT ![c] = Idle]
  /\ UNCHANGED <<storeVars, currentRoom, locations, visible, opening, fetches,
                 feed, pendingInsert, pendingUpsert>>

\* handleJoinRoom (125-129): if (!roomCode.trim()) { setError(...); return }
JoinRoomBlank(c) ==
  /\ rm[c].op = "joinRoom" /\ Trim(rm[c].text) = ""
  /\ error' = [error EXCEPT ![c] = "validation"]
  /\ rm' = [rm EXCEPT ![c] = Idle]
  /\ UNCHANGED <<storeVars, currentRoom, locations, visible, opening, fetches,
                 feed, pendingInsert, pendingUpsert>>

\* handleDeleteRoom (171-173): if (!targetRoomId || !userId) return
DeleteRoomNoUser(c) ==
  /\ rm[c].op = "deleteRoom" /\ rm[c].text = ""
  /\ rm' = [rm EXCEPT ![c] = Idle]
  /\ UNCHANGED <<storeVars, currentRoom, locations, visible, error, opening, fetches,
                 feed, pendingInsert, pendingUpsert>>

\* handleAddMarker (83-84): if (!newMarker || !markerName.trim()) return
AddMarkerBlank(c) ==
  /\ rm[c].op = "addMarker" /\ Trim(rm[c].text) = ""
  /\ rm' = [rm EXCEPT ![c] = Idle]
  /\ UNCHANGED <<storeVars, currentRoom, locations, visible, error, opening, fetches,
                 feed, pendingInsert, pendingUpsert>>

(* --------------------------- MapComponent.tsx -------------------------- *)
\* handleAddMarker (83-114): insert of a custom marker at the clicked point
AddMarker(c, pos) ==
  /\ currentRoom[c] # NoRoom
  /\ InsertLocation(currentRoom[c], c, pos, TRUE)
  /\ UNCHANGED <<rooms, room_members, usedRooms, currentRoom, locations, visible,
                 error, rm, opening, fetches, pendingInsert, pendingUpsert>>

\* handleDeleteMarker (116-131) from the popup of a rendered custom marker
\* (190-197): delete by id, then onLocationDelete (page.tsx 249-251).
DeleteMarker(c) ==
  \E i \in DOMAIN visible[c] :
    LET m == visible[c][i]
        hit == {l \in locationRows : l.id = m.id}
    IN /\ currentRoom[c] # NoRoom
       /\ m.is_custom_marker
       /\ locationRows' = locationRows \ hit
       /\ feed' = [d \in Users |->
                     IF hit # {} /\ currentRoom[d] = m.room_id
                     THEN Append(feed[d], Event("DELETE", m)) ELSE feed[d]]
       /\ SetLocations(c, OnDelete(locations[c], m.id))
       /\ UNCHANGED <<rooms, room_members, usedRooms, nextId, now, currentRoom, error,
                      rm, opening, fetches, pendingInsert, pendingUpsert>>

(* ------------------------------ Init ----------------------------------- *)
Init ==
  /\ rooms = {}
  /\ room_members = <<>>
  /\ locationRows = {}
  /\ usedRooms = {}
  /\ nextId = 1
  /\ now = 1
  /\ currentRoom = [c \in Users |-> NoRoom]
  /\ locations = [c \in Users |-> <<>>]
  /\ visible = [c \in Users |-> <<>>]
  /\ error = [c \in Users |-> "none"]
  /\ rm = [c \in Users |-> Idle]
  /\ opening = [c \in Users |-> NoRoom]
  /\ fetches = [c \in Users |-> {}]
  /\ feed = [c \in Users |-> <<>>]
  /\ pendingInsert = [c \in Users |-> NoSample]
  /\ pendingUpsert = [c \in Users |-> NoSample]

(* ------------------------------ Spec ----------------------------------- *)
\* room left for one more row in the bounded store
CanWrite == nextId <= MaxRows

\* Every request of a page has been answered and every event handled.  The
\* users of Spec start a new operation only then; the steps of the operations
\* themselves interleave freely.
Settled ==
  \A c \in Users : opening[c] = NoRoom /\ fetches[c] = {} /\ feed[c] = <<>>

Next ==
  \E c \in Users :
    \/ \E code \in Codes : Settled /\ CreateRoom(c, code)
    \/ \E input \in CodeInputs : Settled /\ JoinRoomSelect(c, input)
    \/ JoinRoomInsert(c)
    \/ \E target \in Rooms : Settled /\ DeleteRoomLocations(c, target)
    \/ DeleteRoomRoom(c)
    \/ Settled /\ LeaveRoom(c)
    \/ OpenSelect(c)
    \/ FetchRead(c)
    \/ FetchApply(c)
    \/ Deliver(c)
    \/ \E pos \in Positions : Settled /\ CanWrite /\ AddMarker(c, pos)
    \/ Settled /\ DeleteMarker(c)

Spec == Init /\ [][Next]_vars

(* ------------- the scenario of the specification (SpecScenario) -------- *)
\* User A creates the room, B joins it by its code, A's device reports two
\* positions, B adds a custom marker, A leaves.  Each step of the users
\* starts when the steps of the one before are over; the requests, reads and
\* events of one step interleave freely.  The clock counts the location
\* writes made so far (two per sample, one per marker).
ScnPos1 == <<40, -3>>
ScnPos2 == <<41, -4>>

ScnQuiet ==
  /\ Settled
  /\ \A c \in Users :
       rm[c] = Idle /\ pendingInsert[c] = NoSample /\ pendingUpsert[c] = NoSample

NextScenario ==
  \/ \E code \in Codes : ScnQuiet /\ rooms = {} /\ CreateRoom("A", code)
  \/ \E input \in CodeInputs :
       /\ ScnQuiet /\ currentRoom["A"] # NoRoom /\ room_members = <<>>
       /\ JoinRoomSelect("B", input)
  \/ JoinRoomInsert("B")
  \/ \E c \in Users : OpenSelect(c)
  \/ \E c \in Users : FetchRead(c)
  \/ \E c \in Users : FetchApply(c)
  \/ \E c \in Users : Deliver(c)
  \/ ScnQuiet /\ currentRoom["B"] # NoRoom /\ now = 1 /\ Sample("A", ScnPos1)
  \/ ScnQuiet /\ currentRoom["B"] # NoRoom /\ now = 3 /\ Sample("A", ScnPos2)
  \/ UpdateLocationInsert("A")
  \/ UpsertSelect("A")
  \/ UpsertWrite("A")
  \/ \E pos \in Positions : ScnQuiet /\ now = 5 /\ AddMarker("B", pos)
  \/ ScnQuiet /\ now = 6 /\ LeaveRoom("A")

SpecScenario == Init /\ [][NextScenario]_vars

(* --------------- reporting while a room is opened (SpecLive) ----------- *)
\* A creates the room and is the reporter: its device delivers samples and it
\* may leave at any moment.  B joins by the room's code at any moment and
\* watches.  Nothing waits for anything else: samples, the store's answers,
\* reads, events and the leaving interleave freely.
NextLive ==
  \/ \E code \in Codes : Settled /\ CreateRoom("A", code)
  \/ \E input \in Codes : currentRoom["B"] = NoRoom /\ JoinRoomSelect("B", input)
  \/ JoinRoomInsert("B")
  \/ \E c \in Users : OpenSelect(c)
  \/ \E c \in Users : FetchRead(c)
  \/ \E c \in Users : FetchApply(c)
  \/ \E c \in Users : Deliver(c)
  \/ \E pos \in Positions : CanWrite /\ Sample("A", pos)
  \/ UpdateLocationInsert("A")
  \/ UpsertSelect("A")
  \/ UpsertWrite("A")
  \/ LeaveRoom("A")

SpecLive == Init /\ [][NextLive]_vars

(* ------------- leaving with other rooms in the store (SpecRooms) ------- *)
\* The store already holds another room, created by B and once joined by A,
\* with a custom marker of each user; both pages have been reloaded since, so
\* no client is in a room.  The users then create, join, mark and leave.
OtherRoom == "r2"
OtherCode == "QRS456"

InitRooms ==
  /\ rooms = {[id |-> OtherRoom, code |-> OtherCode, created_by |-> "B"]}
  /\ room_members = <<[room_id |-> OtherRoom, user_id |-> "A"]>>
  /\ locationRows = {Location(1, OtherRoom, "B", <<40, -3>>, 1, TRUE),
                     Location(2, OtherRoom, "A", <<41, -4>>, 2, TRUE)}
  /\ usedRooms = {OtherRoom}
  /\ nextId = 3
  /\ now = 3
  /\ currentRoom = [c \in Users |-> NoRoom]
  /\ locations = [c \in Users |-> <<>>]
  /\ visible = [c \in Users |-> <<>>]
  /\ error = [c \in Users |-> "none"]
  /\ rm = [c \in Users |-> Idle]
  /\ opening = [c \in Users |-> NoRoom]
  /\ fetches = [c \in Users |-> {}]
  /\ feed = [c \in Users |-> <<>>]
  /\ pendingInsert = [c \in Users |-> NoSample]
  /\ pendingUpsert = [c \in Users |-> NoSample]

NextRooms ==
  \E c \in Users :
    \/ \E code \in Codes : Settled /\ CreateRoom(c, code)
    \/ \E input \in Codes : Settled /\ JoinRoomSelect(c, input)
    \/ JoinRoomInsert(c)
    \/ OpenSelect(c)
    \/ FetchRead(c)
    \/ FetchApply(c)
    \/ Deliver(c)
    \/ \E pos \in Positions : Settled /\ nextId <= MaxRows + 2 /\ AddMarker(c, pos)
    \/ Settled /\ LeaveRoom(c)

SpecRooms == InitRooms /\ [][NextRooms]_vars

(* ------------ every way a registry call can end (SpecCalls) ------------ *)
\* The store holds the other room as in SpecRooms.  The users call the
\* registry with the codes a draw can give, the taken one included, with
\* blank fields, and while the store may fail to answer a delete.
DrawnCodes == Codes \cup {OtherCode}

\* a blank form is submitted while no other call of the registry is running
Calm == Settled /\ \A d \in Users : rm[d] = Idle

NextCalls ==
  \E c \in Users :
    \/ \E code \in DrawnCodes : Settled /\ CreateRoom(c, code)
    \/ \E input \in DrawnCodes : Settled /\ JoinRoomSelect(c, input)
    \/ JoinRoomInsert(c)
    \/ \E target \in Rooms \cup {OtherRoom} : Settled /\ DeleteRoomLocations(c, target)
    \/ DeleteRoomRoom(c)
    \/ \E target \in Rooms \cup {OtherRoom} : Settled /\ DeleteRoomLocationsFail(c, target)
    \/ DeleteRoomRoomFail(c)
    \/ \E op \in Handlers : \E text \in Fields(op) : Calm /\ Submit(c, op, text)
    \/ CreateRoomBlank(c)
    \/ JoinRoomBlank(c)
    \/ DeleteRoomNoUser(c)
    \/ AddMarkerBlank(c)
    \/ OpenSelect(c)
    \/ FetchRead(c)
    \/ FetchApply(c)
    \/ Deliver(c)

SpecCalls == InitRooms /\ [][NextCalls]_vars

(* ------------- two reporters in one room (SpecWriters) ----------------- *)
\* A has created room r1 and B has joined it; both have it open with their
\* subscriptions and the first read done, and a custom marker of A is in the
\* store and in both replicas.  Both devices then deliver samples, and either
\* user may delete the marker or leave.
WritersRoom == "r1"
WritersMarker == Location(1, WritersRoom, "A", <<40, -3>>, 1, TRUE)

InitWriters ==
  /\ rooms = {[id |-> WritersRoom, code |-> "ABC123", created_by |-> "A"]}
  /\ room_members = <<[room_id |-> WritersRoom, user_id |-> "B"]>>
  /\ locationRows = {WritersMarker}
  /\ usedRooms = {WritersRoom}
  /\ nextId = 2
  /\ now = 2
  /\ currentRoom = [c \in Users |-> WritersRoom]
  /\ locations = [c \in Users |-> <<WritersMarker>>]
  /\ visible = [c \in Users |-> filteredLocations(<<WritersMarker>>)]
  /\ error = [c \in Users |-> "none"]
  /\ rm = [c \in Users |-> Idle]
  /\ opening = [c \in Users |-> NoRoom]
  /\ fetches = [c \in Users |-> {}]
  /\ feed = [c \in Users |-> <<>>]
  /\ pendingInsert = [c \in Users |-> NoSample]
  /\ pendingUpsert = [c \in Users |-> NoSample]

NextWriters ==
  \E c \in Users :
    \/ \E pos \in Positions : Settled /\ CanWrite /\ Sample(c, pos)
    \/ UpdateLocationInsert(c)
    \/ UpsertSelect(c)
    \/ UpsertWrite(c)
    \/ Deliver(c)
    \/ DeleteMarker(c)
    \/ LeaveRoom(c)

SpecWriters == InitWriters /\ [][NextWriters]_vars

(* ------------- reporting through failures (SpecFaults) ----------------- *)
\* The room of SpecWriters, with A as the reporter and B watching.  The store
\* may fail to answer any request of a sample, and the device may report an
\* error instead of a position.
Reporter == "A"

NextFaults ==
  \/ \E pos \in Positions : now <= MaxTime + 1 /\ Sample(Reporter, pos)
  \/ UpdateLocationInsert(Reporter)
  \/ UpdateLocationFail(Reporter)
  \/ UpsertSelect(Reporter)
  \/ UpsertSelectFail(Reporter)
  \/ UpsertWrite(Reporter)
  \/ UpsertWriteFail(Reporter)
  \/ GeoError(Reporter)
  \/ GeoErrorLogged(Reporter)
  \/ \E c \in Users : Deliver(c)

SpecFaults == InitWriters /\ [][NextFaults]_vars

(* ------------ deleting a room that is reported in (SpecClose) ---------- *)
\* The room of SpecWriters.  Its owner A deletes it while the device of the
\* member B delivers samples; B's page is told nothing of the deletion.
Owner == "A"
Member == "B"

NextClose ==
  \/ \E pos \in Positions : now <= MaxTime + 1 /\ Sample(Member, pos)
  \/ UpdateLocationInsert(Member)
  \/ UpsertSelect(Member)
  \/ UpsertWrite(Member)
  \/ DeleteRoomLocations(Owner, WritersRoom)
  \/ DeleteRoomRoom(Owner)
  \/ \E c \in Users : Deliver(c)

SpecClose == InitWriters /\ [][NextClose]_vars

(* ------------------ projection specification (SpecProj) ---------------- *)
\* One client's replica driven by arbitrary INSERT and UPDATE payloads of
\* one room; every row id is fresh at its insert.
ProjClient == "A"
ProjRoom == "r1"

InitProj == Init

ProjInsert ==
  \E u \in Users, p \in Positions, t \in Times, k \in BOOLEAN :
    /\ Len(locations[ProjClient]) < MaxLen
    /\ SetLocations(ProjClient,
         OnInsert(locations[ProjClient],
                  Location(Len(locations[ProjClient]) + 1, ProjRoom, u, p, t, k)))
    /\ UNCHANGED <<storeVars, currentRoom, error, rm, opening, fetches, feed,
                   pendingInsert, pendingUpsert>>

ProjUpdate ==
  \E i \in DOMAIN locations[ProjClient], p \in Positions, t \in Times :
    LET old == locations[ProjClient][i] IN
    /\ ~old.is_custom_marker
    /\ t >= old.timestamp
    /\ SetLocations(ProjClient,
         OnUpdate(locations[ProjClient],
                  [old EXCEPT !.latitude = p[1], !.longitude = p[2], !.timestamp = t]))
    /\ UNCHANGED <<storeVars, currentRoom, error, rm, opening, fetches, feed,
                   pendingInsert, pendingUpsert>>

NextProj == ProjInsert \/ ProjUpdate

SpecProj == InitProj /\ [][NextProj]_vars

(* ======================= claims on the projection ====================== *)
\* indices of the live-position entries of user u in list
LiveIdx(list, u) ==
  {i \in DOMAIN list : ~list[i].is_custom_marker /\ list[i].user_id = u}
CustomIdx(list) == {i \in DOMAIN list : list[i].is_custom_marker}
MaxTs(list, idx) == CHOOSE t \in {list[i].timestamp : i \in idx} :
                      \A i \in idx : list[i].timestamp <= t
\* the orderings of a list
Orderings(list) ==
  LET n == Len(list)
      perms == {f \in [1..n -> 1..n] : \A i, j \in 1..n : f[i] = f[j] => i = j}
  IN {[i \in 1..n |-> list[f[i]]] : f \in perms}

\* C1: whatever raw list a client holds, the visible marker set holds at most
\* one live-position record per user_id.
C1_AtMostOneLivePerUser ==
  \A c \in Users, u \in Users : Cardinality(LiveIdx(visible[c], u)) <= 1

\* C1 witness: a replica with two live-position records and a custom marker
\* of one user, rendered with one live-position record of that user.
C1_Witness ==
  \E u \in Users :
    /\ Cardinality(LiveIdx(locations[ProjClient], u)) >= 2
    /\ \E i \in CustomIdx(locations[ProjClient]) : locations[ProjClient][i].user_id = u
    /\ Cardinality(LiveIdx(visible[ProjClient], u)) = 1

\* C2: every custom marker of the raw list appears unmodified in the visible
\* marker set.
C2_EveryCustomMarkerVisible ==
  \A c \in Users : \A i \in CustomIdx(locations[c]) :
    locations[c][i] \in Range(visible[c])

\* C3: for every user with a live-position record in the raw list the visible
\* set holds exactly one live-position record of that user, and it carries
\* the maximum timestamp of that user's live-position records.
C3_ExactlyOneLatestLive ==
  \A c \in Users, u \in Users :
    LiveIdx(locations[c], u) # {} =>
      /\ Cardinality(LiveIdx(visible[c], u)) = 1
      /\ \A i \in LiveIdx(visible[c], u) :
           visible[c][i].timestamp = MaxTs(locations[c], LiveIdx(locations[c], u))

\* C4: when a user's live-position records are two records with timestamps
\* t1 < t2, the projection shows that user's marker at the coordinates of the
\* t2 record, in either order of the two in the raw list.
C4_LaterOfTwoShown ==
  \A c \in Users, u \in Users :
    \A i, j \in LiveIdx(locations[c], u) :
      /\ LiveIdx(locations[c], u) = {i, j}
      /\ locations[c][i].timestamp < locations[c][j].timestamp
      => \E k \in LiveIdx(visible[c], u) :
           /\ visible[c][k].latitude = locations[c][j].latitude
           /\ visible[c][k].longitude = locations[c][j].longitude
           /\ visible[c][k].timestamp = locations[c][j].timestamp

\* C5: the projection of any reordering of the raw list is the same set of
\* records.
C5_OrderIndependent ==
  \A c \in Users : \A l \in Orderings(locations[c]) :
    Range(filteredLocations(l)) = Range(visible[c])

\* C6: appending a live-position record r of user u makes r the visible live
\* marker of u when r's timestamp is strictly greater than that of every
\* live-position record of u in the replica, and leaves u's visible live
\* marker the record it was otherwise.
C6_InsertReplacesIffNewer ==
  [][\A c \in Users :
       (Len(locations'[c]) = Len(locations[c]) + 1
        /\ ~locations'[c][Len(locations'[c])].is_custom_marker) =>
         LET r == locations'[c][Len(locations'[c])]
             u == r.user_id
             old == LiveIdx(locations[c], u)
             before == {visible[c][i] : i \in LiveIdx(visible[c], u)}
             after == {visible'[c][i] : i \in LiveIdx(visible'[c], u)}
         IN IF \A i \in old : r.timestamp > locations[c][i].timestamp
            THEN after = {r}
            ELSE after = before]_vars

(* ======================= claims on the registry ======================== *)
MemberRow(room, user) == [room_id |-> room, user_id |-> user]
MemberCount(room, user) ==
  Cardinality({i \in DOMAIN room_members : room_members[i] = MemberRow(room, user)})

C9_RejoinOpensWithoutError ==
  [][\A c \in Users :
       (/\ rm[c].op = "join"
        /\ rm'[c] = Idle
        /\ MemberRow(rm[c].room, c) \in Range(room_members)) =>
         /\ error'[c] = "none"
         /\ opening'[c] = rm[c].room
         /\ room_members' = room_members]_vars

\* C10: a deleteRoom requested by a user who is not the room's created_by
\* changes no Room, Location or Membership row and ends with an
\* authorization error.
C10_NonOwnerDeleteRefused ==
  [][\A c \in Users : \A r \in rooms :
       (/\ r.created_by # c
        /\ \/ rm'[c].op = "delete" /\ rm'[c].room = r.id /\ rm[c] = Idle
           \/ rm[c].op = "delete" /\ rm[c].room = r.id /\ rm'[c] = Idle) =>
         /\ rooms' = rooms
         /\ locationRows' = locationRows
         /\ room_members' = room_members
         /\ rm'[c] = Idle => error'[c] = "not_authorized"]_vars

(* ======================= claim on the scenario ========================= *)
\* the markers a client in the room is shown
InRoom == {c \in Users : currentRoom[c] # NoRoom}
OneLiveMarkerOfAAt(list, pos) ==
  /\ Len(list) = 1
  /\ list[1].user_id = "A" /\ ~list[1].is_custom_marker
  /\ <<list[1].latitude, list[1].longitude>> = pos

\* C7: in the scenario, once a step and its requests and events are over:
\* after B's join the membership row of B exists; after A's first report the
\* projection shows one marker, A's, at the reported position; after the
\* second report still one marker, A's, at the new position; after B's custom
\* marker two markers; after A's leaving exactly the custom marker and no
\* live-position marker.
C7_Scenario ==
  ScnQuiet =>
    /\ currentRoom["B"] # NoRoom =>
         \E r \in rooms : MemberRow(r.id, "B") \in Range(room_members)
    /\ now = 3 => \A c \in InRoom : OneLiveMarkerOfAAt(visible[c], ScnPos1)
    /\ now = 5 => \A c \in InRoom : OneLiveMarkerOfAAt(visible[c], ScnPos2)
    /\ (now = 6 /\ currentRoom["A"] # NoRoom) =>
         \A c \in InRoom :
           /\ Len(visible[c]) = 2
           /\ Cardinality(LiveIdx(visible[c], "A")) = 1
           /\ Cardinality(CustomIdx(visible[c])) = 1
    /\ (now = 6 /\ currentRoom["A"] = NoRoom) =>
         /\ Len(visible["B"]) = 1
         /\ visible["B"][1].is_custom_marker
         /\ visible["B"][1].user_id = "B"

\* C7 witness: the end of the scenario, A has left and B is shown the marker.
C7_Witness ==
  /\ ScnQuiet /\ now = 6
  /\ currentRoom["A"] = NoRoom /\ currentRoom["B"] # NoRoom
  /\ Len(visible["B"]) = 1
  /\ RowsOfUserInRoom(currentRoom["B"], "A") = {}

(* =================== claims on reporting and the feed ================== *)
\* the live-position rows of (room, user) in a set of rows
LiveRowsOf(rows, room, user) ==
  {l \in rows : l.room_id = room /\ l.user_id = user /\ ~l.is_custom_marker}

\* the client of c has no handler and no sample callback in progress
ClientDone(c) ==
  rm[c] = Idle /\ pendingInsert[c] = NoSample /\ pendingUpsert[c] = NoSample

\* c has been in a room of its own and has left it
HasLeft(c) ==
  /\ currentRoom[c] = NoRoom /\ opening[c] = NoRoom
  /\ \E r \in rooms : r.created_by = c

\* C13: once a user has left the room and every operation its client had
\* started is over, the store holds no Location row of that user in that
\* room, and a subscriber that has handled all its events and reads is shown
\* no marker of that user.
C13_NoRowsAfterLeave ==
  \A c \in Users : (HasLeft(c) /\ ClientDone(c)) =>
    \A r \in rooms : r.created_by = c =>
      /\ RowsOfUserInRoom(r.id, c) = {}
      /\ \A d \in Users \ {c} :
           (currentRoom[d] = r.id /\ fetches[d] = {} /\ feed[d] = <<>>) =>
             \A i \in DOMAIN visible[d] : visible[d][i].user_id # c

\* C14: a sample callback goes on to its write (the answer of its select has
\* come, the update or insert is sent next) only while the client is in a
\* room: after the client has left, no write is issued.
C14_NoWriteAfterLeave ==
  [][\A c \in Users :
       (pendingUpsert[c].stage = "select" /\ pendingUpsert'[c].stage = "write")
         => currentRoom[c] # NoRoom]_vars

\* C15: when the store holds a live-position row of (room, user), a write made
\* for a sample of that user in that room leaves the number of live-position
\* rows of (room, user) as it was and stamps one of them with the sample's
\* coordinates and the time of the write.
C15_SampleOverwrites ==
  [][\A c \in Users, r \in Rooms :
       (/\ LiveRowsOf(locationRows, r, c) # {}
        /\ \/ pendingInsert[c] # NoSample /\ pendingInsert'[c] = NoSample
              /\ pendingInsert[c].room = r
           \/ pendingUpsert[c].stage = "write" /\ pendingUpsert'[c] = NoSample
              /\ pendingUpsert[c].room = r)
       => LET p == IF pendingInsert[c] # pendingInsert'[c]
                   THEN pendingInsert[c] ELSE pendingUpsert[c]
          IN /\ Cardinality(LiveRowsOf(locationRows', r, c))
                  = Cardinality(LiveRowsOf(locationRows, r, c))
             /\ \E l \in LiveRowsOf(locationRows', r, c) :
                  /\ <<l.latitude, l.longitude>> = p.pos
                  /\ l.timestamp = now]_vars

\* every record c has seen or can see was written by another client
OnlyOthersWrote(c) ==
  \A l \in RowsOfRoom(currentRoom[c]) \cup Range(locations[c]) : l.user_id # c

\* C16: when no write, read or event is under way, the replica of a client
\* that opened a room while others wrote holds the store's rows of that room,
\* each once and with its current fields.
C16_ReplicaConverges ==
  ScnQuiet =>
    \A c \in InRoom : OnlyOthersWrote(c) =>
      /\ Range(locations[c]) = RowsOfRoom(currentRoom[c])
      /\ Len(locations[c]) = Cardinality(RowsOfRoom(currentRoom[c]))

\* C17: after the handler has applied an INSERT or UPDATE event carrying
\* record r, the replica has an entry equal to r, whether or not an entry of
\* r's id was there before.
C17_EventRecordInReplica ==
  [][\A c \in Users :
       (/\ Deliver(c)
        /\ Head(feed[c]).eventType \in {"INSERT", "UPDATE"})
       => \E i \in DOMAIN locations'[c] : locations'[c][i] = Head(feed[c]).row]_vars

(* ================= further claims on the registry ====================== *)
\* C11: when the owner's deleteRoom has completed, the store holds no Room
\* row, no Location row and no Membership row of that room.
C11_OwnerDeleteRemovesAll ==
  [][\A c \in Users : \A r \in rooms :
       (/\ r.created_by = c
        /\ rm[c].op = "delete" /\ rm[c].room = r.id /\ rm'[c] = Idle) =>
         /\ \A q \in rooms' : q.id # r.id
         /\ \A l \in locationRows' : l.room_id # r.id
         /\ \A i \in DOMAIN room_members' : room_members'[i].room_id # r.id]_vars

\* C12: a joinRoom whose uppercased code matches no room ends with the
\* not-found error, adds no Membership row, opens no room and leaves the
\* handler with nothing more to do.
C12_JoinUnknownCodeNotFound ==
  [][\A c \in Users : \A input \in CodeInputs :
       (RoomsByCode(ToUpperCase(input)) = {} /\ JoinRoomSelect(c, input)) =>
         /\ error'[c] = "not_found"
         /\ room_members' = room_members
         /\ opening'[c] = NoRoom
         /\ currentRoom' = currentRoom
         /\ rm'[c] = Idle]_vars

\* C12 witness: a user who had joined the room is refused with not-found
\* once the room is gone.
C12_Witness ==
  \E c \in Users, r \in Rooms :
    /\ MemberRow(r, c) \in Range(room_members)
    /\ rooms = {} /\ r \in usedRooms
    /\ error[c] = "not_found"
    /\ opening[c] = NoRoom /\ rm[c] = Idle

\* new is old without its entries of id x, the others in their order
RemovedOnly(old, new, x) ==
  LET keep == {i \in DOMAIN old : old[i].id # x} IN
  /\ Len(new) = Cardinality(keep)
  /\ \A i \in keep : new[Cardinality({j \in keep : j <= i})] = old[i]

\* C18: handling a DELETE event of record id x, and the onLocationDelete of a
\* marker x deleted by the client itself, leave the replica without an entry
\* of id x and with every other entry as it was; when x is absent the replica
\* is unchanged.
C18_DeleteRemovesOnlyThatId ==
  [][\A c \in Users :
       /\ (Deliver(c) /\ Head(feed[c]).eventType = "DELETE") =>
            LET x == Head(feed[c]).row.id IN
            /\ RemovedOnly(locations[c], locations'[c], x)
            /\ (\A i \in DOMAIN locations[c] : locations[c][i].id # x)
                 => locations'[c] = locations[c]
       /\ DeleteMarker(c) =>
            \E i \in DOMAIN visible[c] :
              /\ visible[c][i].is_custom_marker
              /\ RemovedOnly(locations[c], locations'[c], visible[c][i].id)]_vars

\* C18 witness: a deleteRoom has removed rows 1 and 2 at once; the client
\* has handled the DELETE of row 1, holds row 2 and has its DELETE next.
C18_Witness ==
  \E c \in Users :
    /\ locationRows = {} /\ nextId = 3
    /\ Len(feed[c]) = 1
    /\ Head(feed[c]).eventType = "DELETE" /\ Head(feed[c]).row.id = 2
    /\ Len(locations[c]) = 1 /\ locations[c][1].id = 2

\* C19: leaveRoom changes no Membership row and no Room row, and removes no
\* Location row other than the leaving user's rows of the room left: the
\* rows of other users in that room and all rows of other rooms stay.
C19_LeaveRoomFrame ==
  [][\A c \in Users :
       LeaveRoom(c) =>
         /\ room_members' = room_members
         /\ rooms' = rooms
         /\ \A l \in locationRows :
              (l.room_id # currentRoom[c] \/ l.user_id # c) => l \in locationRows'
         /\ locationRows' \subseteq locationRows]_vars

\* C19 witness: a member has marked a room and left it; its marker is gone,
\* its membership, the other user's marker in that room and both markers of
\* the other room are there.
C19_Witness ==
  \E c \in Users, r \in Rooms :
    /\ currentRoom[c] = NoRoom /\ rm[c] = Idle
    /\ MemberRow(r, c) \in Range(room_members)
    /\ nextId = 5
    /\ RowsOfUserInRoom(r, c) = {}
    /\ \E l \in RowsOfRoom(r) : l.user_id # c
    /\ Cardinality(RowsOfRoom(OtherRoom)) = 2

\* C20: a createRoom that succeeds adds one Room row, created_by the
\* creator, and no Membership row; opening the room adds none either.
C20_CreateRoomNoMembership ==
  [][\A c \in Users :
       /\ (opening[c] = NoRoom /\ opening'[c] # NoRoom /\ rooms' # rooms) =>
            /\ \E r \in rooms' \ rooms :
                 /\ rooms' = rooms \cup {r}
                 /\ r.created_by = c
                 /\ r.id = opening'[c]
            /\ room_members' = room_members
       /\ (opening[c] # NoRoom /\ opening'[c] = NoRoom) =>
            /\ room_members' = room_members
            /\ opening[c] \in RoomIds => currentRoom'[c] = opening[c]]_vars

\* C20 witness: the creator is in its room and room_members is empty.
C20_Witness ==
  \E c \in Users : \E r \in rooms :
    /\ r.created_by = c
    /\ currentRoom[c] = r.id
    /\ room_members = <<>>

(* ------------------------- claims C21 .. C30 --------------------------- *)
\* C21: when the code drawn by createRoom is the code of an existing room
\* and a free code can still be drawn, createRoom draws again: the call does
\* not end with the conflict error, and the room is created.
C21_CollisionRetried ==
  [][\A c \in Users : \A code \in DrawnCodes :
       (/\ CreateRoom(c, code)
        /\ RoomsByCode(code) # {}
        /\ \E free \in DrawnCodes : RoomsByCode(free) = {})
       => (error'[c] # "duplicate_code" /\ rooms' # rooms)]_vars

\* C22: a delete-marker request removes from the store no custom marker of
\* a user other than the one who issues the request.
C22_OnlyCreatorDeletesMarker ==
  [][\A c \in Users :
       DeleteMarker(c) => \A l \in locationRows \ locationRows' : l.user_id = c]_vars

\* the live-position rows in the store that belong to users other than c
LiveRowsOfOthers(c) == {l \in locationRows : ~l.is_custom_marker /\ l.user_id # c}

\* C23: a write of a client's position reporter, a marker deletion and a
\* leaving of client c leave every live-position row of every other user in
\* the store with its coordinates and timestamp as they were.
C23_OnlyOwnLiveRowsWritten ==
  [][\A c \in Users :
       (\/ UpdateLocationInsert(c)
        \/ UpsertWrite(c)
        \/ DeleteMarker(c)
        \/ LeaveRoom(c))
       => LiveRowsOfOthers(c) \subseteq locationRows']_vars

\* B's reporter has updated its own row after A's live row was written: B's
\* row has the smaller id and the later timestamp, and A's row is in the store.
C23_Witness ==
  \E a, b \in locationRows :
    /\ ~a.is_custom_marker /\ ~b.is_custom_marker
    /\ a.user_id = "A" /\ b.user_id = "B"
    /\ b.id < a.id /\ b.timestamp > a.timestamp

\* C24: a failed location write and a device error leave the client in its
\* room with its subscription and its replica as they were and end the
\* callback, and whatever failed before, a sample that arrives starts the two
\* write attempts with its own position and the room that is open.
C24_FailureKeepsReporting ==
  [][\A c \in Users :
       /\ (UpdateLocationFail(c) \/ UpsertWriteFail(c) \/ GeoErrorLogged(c))
          => /\ currentRoom'[c] = currentRoom[c] /\ currentRoom[c] # NoRoom
             /\ feed'[c] = feed[c]
             /\ locations'[c] = locations[c]
             /\ (pendingInsert'[c] = NoSample \/ pendingUpsert'[c] = NoSample)
       /\ \A pos \in Positions :
            Sample(c, pos)
            => /\ pendingInsert'[c] =
                    [stage |-> "insert", room |-> currentRoom[c], pos |-> pos]
               /\ pendingUpsert'[c] =
                    [stage |-> "select", room |-> currentRoom[c], pos |-> pos]]_vars

\* Exactly one write of the first sample has reached the store, the other has
\* failed, and the two write attempts of the next sample are under way.
C24_Witness ==
  /\ now = 3
  /\ currentRoom[Reporter] = WritersRoom
  /\ pendingInsert[Reporter] # NoSample
  /\ pendingUpsert[Reporter].stage = "select"

\* C25: a createRoom or joinRoom called with a blank field and an adding of
\* a marker called with a blank name each end with a validation error shown
\* to the caller and with no Room, Membership or Location row inserted.
C25_BlankInputRejected ==
  [][\A c \in Users :
       (rm[c].op \in {"createRoom", "joinRoom", "addMarker"} /\ rm'[c] = Idle)
       => /\ error'[c] = "validation"
          /\ rooms' = rooms
          /\ room_members' = room_members
          /\ locationRows' = locationRows]_vars

\* C26: every call of createRoom, joinRoom or deleteRoom ends with its
\* mutation made (the room inserted, the membership inserted, the room gone
\* from the store) or with an error shown to the caller.
C26_NoSilentNoOp ==
  [][\A c \in Users :
       /\ ((\E code \in DrawnCodes : CreateRoom(c, code))
           => (rooms' # rooms \/ error'[c] # "none"))
       /\ ((\E input \in DrawnCodes : JoinRoomSelect(c, input) /\ rm'[c] = Idle)
           => error'[c] # "none")
       /\ (JoinRoomInsert(c)
           => (room_members' # room_members \/ error'[c] # "none"))
       /\ ((rm[c].op = "delete" /\ rm'[c] = Idle)
           => (rm[c].room \notin {r.id : r \in rooms'} \/ error'[c] # "none"))
       /\ ((\E target \in Rooms \cup {OtherRoom} : DeleteRoomLocationsFail(c, target))
           => error'[c] # "none")
       /\ ((rm[c].op \in {"createRoom", "joinRoom", "deleteRoom"} /\ rm'[c] = Idle)
           => error'[c] # "none")]_vars

\* C27: every record of a client's replica belongs to the room the client
\* has open, and the replica is empty while no room is open.
C27_ReplicaOfOpenRoom ==
  \A c \in Users :
    /\ currentRoom[c] = NoRoom => locations[c] = <<>>
    /\ \A i \in DOMAIN locations[c] : locations[c][i].room_id = currentRoom[c]

\* C28: a client's replica holds at most one entry for each record id.
C28_ReplicaIdsUnique ==
  \A c \in Users : \A i, j \in DOMAIN locations[c] :
    locations[c][i].id = locations[c][j].id => i = j

\* C29: every Location row in the store refers to a Room that is in the store.
C29_RowsReferToRooms ==
  \A l \in locationRows : l.room_id \in RoomIds

\* C30: when deleteRoom ends with an error, at the delete of the locations
\* or at the delete of the room, the Room row is in the store and so is every
\* Location row the room had when the call began.
C30_FailedDeleteRemovesNothing ==
  [][\A c \in Users :
       /\ ((\E target \in Rooms \cup {OtherRoom} : DeleteRoomLocationsFail(c, target))
           => (rooms' = rooms /\ locationRows' = locationRows))
       /\ DeleteRoomRoomFail(c)
          => /\ rooms' = rooms
             /\ rm[c].room \in {r.id : r \in rooms'}
             /\ rm[c].before \subseteq locationRows']_vars

====
